---- MODULE Spec2Model ----
(***************************************************************************)
(* A model of the pie package installer (adrsimon/pie).                    *)
(*                                                                         *)
(* Strings are modelled as sequences of string tokens: the version         *)
(* "1.2.0" is <<"1","2","0">>, the range "^1.2.0" is <<"^","1","2","0">>,  *)
(* the fingerprint "d@1.1.0" is <<"d","@","1","1","0">>.  Parsing and      *)
(* formatting convert between tokens and numbers as the code does.         *)
(***************************************************************************)
EXTENDS Integers, Sequences, FiniteSets, TLC

(***************************************************************************)
(* Tokens and numbers                                                      *)
(***************************************************************************)

\* The decimal numerals that occur in the modelled inputs.
NumTok == {"0", "1", "2", "3", "5", "10"}

\* u64::from_str on one numeric field of a version.
ToNum(t) ==
    CASE t = "0" -> 0
      [] t = "1" -> 1
      [] t = "2" -> 2
      [] t = "3" -> 3
      [] t = "5" -> 5
      [] t = "10" -> 10

\* The Display of a u64 in format!("{}.{}.{}", ...).
ToStr(n) ==
    CASE n = 0 -> "0"
      [] n = 1 -> "1"
      [] n = 2 -> "2"
      [] n = 3 -> "3"
      [] n = 5 -> "5"
      [] n = 10 -> "10"

\* Pre-release tags that occur in the modelled inputs.
PreTok == {"beta"}

\* Operator prefixes of a comparator.
OpTok == {"=", ">", ">=", "<", "<=", "~", "^"}

\* The literal "latest".
LATEST == <<"latest">>

\* Option<T>: None is <<>>, Some(x) is <<x>>.
None == <<>>
Some(x) == <<x>>
IsSome(o) == Len(o) = 1
Unwrap(o) == o[1]

(***************************************************************************)
(* semver::Version                                                         *)
(***************************************************************************)

\* Version::parse / Version::from_str: major.minor.patch with an optional
\* pre-release tag; anything else is an error.
VersionParses(s) ==
    /\ Len(s) \in {3, 4}
    /\ \A i \in 1..3 : s[i] \in NumTok
    /\ Len(s) = 4 => s[4] \in PreTok

VersionParse(s) ==
    [major |-> ToNum(s[1]), minor |-> ToNum(s[2]), patch |-> ToNum(s[3]),
     pre |-> IF Len(s) = 4 THEN s[4] ELSE ""]

\* EMPTY_VERSION, 0.0.0.
EMPTY_VERSION == [major |-> 0, minor |-> 0, patch |-> 0, pre |-> ""]

\* Ord for Prerelease: the empty pre-release is the greatest.
PreLess(p, q) == p # "" /\ q = ""

\* Ord for Version.
VersionLess(a, b) ==
    \/ a.major < b.major
    \/ a.major = b.major /\ a.minor < b.minor
    \/ a.major = b.major /\ a.minor = b.minor /\ a.patch < b.patch
    \/ a.major = b.major /\ a.minor = b.minor /\ a.patch = b.patch
         /\ PreLess(a.pre, b.pre)

\* Display for Version.
VersionToString(v) ==
    <<ToStr(v.major), ToStr(v.minor), ToStr(v.patch)>>
        \o (IF v.pre = "" THEN <<>> ELSE <<v.pre>>)

\* Versions::stringify_from_nums.
stringify_from_nums(major, minor, patch) ==
    <<ToStr(major), ToStr(minor), ToStr(patch)>>

\* Versions::stringify: "{name}@{version}".
stringify(name, version) == name \o <<"@">> \o version

\* Versions::parse_raw_package_details: split on "@"; the first part is the
\* name, the second the version, "latest" when there is none.
FirstAt(s) ==
    IF \E i \in 1..Len(s) : s[i] = "@"
    THEN CHOOSE i \in 1..Len(s) : s[i] = "@" /\ \A j \in 1..(i - 1) : s[j] # "@"
    ELSE 0

parse_raw_package_details(package) ==
    LET at == FirstAt(package) IN
    IF at = 0
    THEN [name |-> package, version |-> LATEST]
    ELSE LET rest == SubSeq(package, at + 1, Len(package))
             at2 == FirstAt(rest)
         IN [name |-> SubSeq(package, 1, at - 1),
             version |-> IF at2 = 0 THEN rest ELSE SubSeq(rest, 1, at2 - 1)]

(***************************************************************************)
(* semver::Comparator                                                      *)
(***************************************************************************)

\* Versions::parse_semantic_version: VersionReq::parse, then the first
\* comparator.  A missing operator is Caret; "*" in place of minor or patch
\* is Wildcard.  The result is [kind |-> "ok", cmp |-> ...], or kind "err"
\* (InvalidVersionNotation), or kind "panic" (remove(0) of no comparators).
NoCmp == [op |-> "Exact", major |-> 0, minor |-> None, patch |-> None, pre |-> ""]

OpOf(t) ==
    CASE t = "=" -> "Exact"
      [] t = ">" -> "Greater"
      [] t = ">=" -> "GreaterEq"
      [] t = "<" -> "Less"
      [] t = "<=" -> "LessEq"
      [] t = "~" -> "Tilde"
      [] t = "^" -> "Caret"

parse_semantic_version(raw) ==
    LET hasOp == Len(raw) >= 1 /\ raw[1] \in OpTok
        body == IF hasOp THEN SubSeq(raw, 2, Len(raw)) ELSE raw
        n == Len(body)
        star == n >= 2 /\ body[n] = "*"
        nums == IF star THEN SubSeq(body, 1, n - 1) ELSE body
        hasPre == Len(nums) = 4 /\ nums[4] \in PreTok
        fields == IF hasPre THEN SubSeq(nums, 1, 3) ELSE nums
        wellFormed ==
            /\ Len(fields) \in 1..3
            /\ \A i \in 1..Len(fields) : fields[i] \in NumTok
            /\ star => (~hasOp /\ Len(fields) < 3)
    IN  IF raw = <<"*">> THEN [kind |-> "panic", cmp |-> NoCmp]
        ELSE IF ~wellFormed THEN [kind |-> "err", cmp |-> NoCmp]
        ELSE [kind |-> "ok",
              cmp |-> [op |-> IF star THEN "Wildcard"
                              ELSE IF hasOp THEN OpOf(raw[1]) ELSE "Caret",
                       major |-> ToNum(fields[1]),
                       minor |-> IF Len(fields) >= 2 THEN Some(ToNum(fields[2])) ELSE None,
                       patch |-> IF Len(fields) = 3 THEN Some(ToNum(fields[3])) ELSE None,
                       pre |-> IF hasPre THEN nums[4] ELSE ""]]

\* Comparator::matches (semver crate), one function per operator.
matches_exact(cmp, ver) ==
    /\ ver.major = cmp.major
    /\ IsSome(cmp.minor) => ver.minor = Unwrap(cmp.minor)
    /\ IsSome(cmp.patch) => ver.patch = Unwrap(cmp.patch)
    /\ ver.pre = cmp.pre

matches_greater(cmp, ver) ==
    IF ver.major # cmp.major THEN ver.major > cmp.major
    ELSE IF ~IsSome(cmp.minor) THEN FALSE
    ELSE IF ver.minor # Unwrap(cmp.minor) THEN ver.minor > Unwrap(cmp.minor)
    ELSE IF ~IsSome(cmp.patch) THEN FALSE
    ELSE IF ver.patch # Unwrap(cmp.patch) THEN ver.patch > Unwrap(cmp.patch)
    ELSE PreLess(cmp.pre, ver.pre)

matches_less(cmp, ver) ==
    IF ver.major # cmp.major THEN ver.major < cmp.major
    ELSE IF ~IsSome(cmp.minor) THEN FALSE
    ELSE IF ver.minor # Unwrap(cmp.minor) THEN ver.minor < Unwrap(cmp.minor)
    ELSE IF ~IsSome(cmp.patch) THEN FALSE
    ELSE IF ver.patch # Unwrap(cmp.patch) THEN ver.patch < Unwrap(cmp.patch)
    ELSE PreLess(ver.pre, cmp.pre)

matches_tilde(cmp, ver) ==
    IF ver.major # cmp.major THEN FALSE
    ELSE IF IsSome(cmp.minor) /\ ver.minor # Unwrap(cmp.minor) THEN FALSE
    ELSE IF IsSome(cmp.patch) /\ ver.patch # Unwrap(cmp.patch)
         THEN ver.patch > Unwrap(cmp.patch)
    ELSE ~PreLess(ver.pre, cmp.pre)

matches_caret(cmp, ver) ==
    IF ver.major # cmp.major THEN FALSE
    ELSE IF ~IsSome(cmp.minor) THEN TRUE
    ELSE IF ~IsSome(cmp.patch)
         THEN (IF cmp.major > 0 THEN ver.minor >= Unwrap(cmp.minor)
               ELSE ver.minor = Unwrap(cmp.minor))
    ELSE LET minor == Unwrap(cmp.minor)
             patch == Unwrap(cmp.patch)
         IN  IF cmp.major > 0 /\ ver.minor # minor THEN ver.minor > minor
             ELSE IF cmp.major > 0 /\ ver.patch # patch THEN ver.patch > patch
             ELSE IF cmp.major = 0 /\ minor > 0 /\ ver.minor # minor THEN FALSE
             ELSE IF cmp.major = 0 /\ minor > 0 /\ ver.patch # patch
                  THEN ver.patch > patch
             ELSE IF cmp.major = 0 /\ minor = 0
                     /\ (ver.minor # minor \/ ver.patch # patch) THEN FALSE
             ELSE ~PreLess(ver.pre, cmp.pre)

pre_is_compatible(cmp, ver) ==
    /\ cmp.major = ver.major
    /\ cmp.minor = Some(ver.minor)
    /\ cmp.patch = Some(ver.patch)
    /\ cmp.pre # ""

matches(cmp, ver) ==
    /\ CASE cmp.op \in {"Exact", "Wildcard"} -> matches_exact(cmp, ver)
         [] cmp.op = "Greater" -> matches_greater(cmp, ver)
         [] cmp.op = "GreaterEq" -> matches_exact(cmp, ver) \/ matches_greater(cmp, ver)
         [] cmp.op = "Less" -> matches_less(cmp, ver)
         [] cmp.op = "LessEq" -> matches_exact(cmp, ver) \/ matches_less(cmp, ver)
         [] cmp.op = "Tilde" -> matches_tilde(cmp, ver)
         [] cmp.op = "Caret" -> matches_caret(cmp, ver)
    /\ (ver.pre = "" \/ pre_is_compatible(cmp, ver))

(***************************************************************************)
(* Versions                                                                *)
(***************************************************************************)

\* Versions::resolve_full_version.  The argument is an Option<Comparator>.
resolve_full_version_less_literal(semantic_version) ==
    IF ~IsSome(semantic_version) THEN Some(LATEST)
    ELSE LET sv == Unwrap(semantic_version) IN
         IF ~(IsSome(sv.minor) /\ IsSome(sv.patch)) THEN None
         ELSE IF sv.op \in {"Greater", "GreaterEq", "Wildcard"} THEN Some(LATEST)
         ELSE Some(stringify_from_nums(sv.major, Unwrap(sv.minor), Unwrap(sv.patch)))

resolve_full_version(semantic_version) ==
    IF ~IsSome(semantic_version) THEN Some(LATEST)
    ELSE LET sv == Unwrap(semantic_version) IN
         IF ~(IsSome(sv.minor) /\ IsSome(sv.patch)) THEN None
         ELSE IF sv.op \in {"Greater", "GreaterEq", "Wildcard"} THEN Some(LATEST)
         ELSE IF sv.op \in {"Exact", "LessEq", "Tilde", "Caret"}
              THEN Some(stringify_from_nums(sv.major, Unwrap(sv.minor), Unwrap(sv.patch)))
         ELSE None

\* Versions::is_latest.  The argument is an Option<String>.
is_latest(version_string) ==
    IF IsSome(version_string) THEN Unwrap(version_string) = LATEST ELSE FALSE

\* Versions::sort: ascending by the parsed Version.  The keys of a map are
\* distinct strings, and distinct parseable strings are distinct versions,
\* so the order of the result does not depend on the order of iteration.
\* (Its expect on an entry that does not parse is SortPanics.)
RECURSIVE SortAscending(_)
SortAscending(S) ==
    IF S = {} THEN <<>>
    ELSE LET least == CHOOSE x \in S :
                 \A y \in S : ~VersionLess(VersionParse(y), VersionParse(x))
         IN <<least>> \o SortAscending(S \ {least})

\* The comparator with its operands exchanged: b.cmp(&a).
Reverse(seq) == [i \in 1..Len(seq) |-> seq[Len(seq) + 1 - i]]

sort_descending(versions) == Reverse(SortAscending(versions))

sort(versions) == SortAscending(versions)

SortPanics(versions) ==
    Cardinality(versions) >= 2 /\ \E v \in versions : ~VersionParses(v)

\* usize::MAX, written as TLC's largest integer.
UsizeMax == 2147483647

\* "version_pos - 1" on usize: the subtraction wraps in a release build (a
\* debug build panics on it; get() of the wrapped index is None and the
\* expect panics as well, so both builds end in a panic).
PreviousIndexOffByOne(version_pos) == version_pos

PreviousIndex(version_pos) ==
    IF version_pos = 0 THEN UsizeMax ELSE version_pos - 1

\* Iterator::position: the 0-based index of the first entry equal to v.
Position(seq, v) ==
    IF \E i \in 1..Len(seq) : seq[i] = v
    THEN Some((CHOOSE i \in 1..Len(seq) :
                   seq[i] = v /\ \A j \in 1..(i - 1) : seq[j] # v) - 1)
    ELSE None

\* The descending scan of resolve_partial_version: the first entry, from
\* the highest, whose parsed version (0.0.0 when it does not parse)
\* satisfies the comparator; the result is that Version's Display.
RECURSIVE ScanDescending(_, _, _)
ScanDescending(cmp, versions, i) ==
    IF i = 0 THEN [kind |-> "err", v |-> <<"InvalidVersion">>]
    ELSE LET version == IF VersionParses(versions[i])
                        THEN VersionParse(versions[i]) ELSE EMPTY_VERSION
         IN IF matches(cmp, version)
            THEN [kind |-> "ok", v |-> VersionToString(version)]
            ELSE ScanDescending(cmp, versions, i - 1)

\* Versions::resolve_partial_version.  semantic_version is an
\* Option<Comparator>, available_versions the set of keys of the map.  The
\* result is [kind |-> "ok", v |-> version], [kind |-> "err", ...] for
\* Err(InvalidVersion), or [kind |-> "panic", ...] for an expect that fails.
resolve_partial_version(semantic_version, available_versions) ==
    IF ~IsSome(semantic_version)
    THEN [kind |-> "panic", v |-> <<"Function should not be called">>]
    ELSE IF SortPanics(available_versions)
    THEN [kind |-> "panic", v |-> <<"Failed to parse version">>]
    ELSE
      LET sv == Unwrap(semantic_version)
          versions == IF Cardinality(available_versions) >= 2
                      THEN sort(available_versions)
                      ELSE IF available_versions = {} THEN <<>>
                      ELSE <<CHOOSE x \in available_versions : TRUE>>
      IN IF sv.op = "Less" /\ IsSome(sv.minor) /\ IsSome(sv.patch)
         THEN LET version_pos ==
                      Position(versions,
                          stringify_from_nums(sv.major, Unwrap(sv.minor), Unwrap(sv.patch)))
              IN IF ~IsSome(version_pos)
                 THEN [kind |-> "err", v |-> <<"InvalidVersion">>]
                 ELSE LET idx == PreviousIndex(Unwrap(version_pos)) IN
                      IF idx >= Len(versions)
                      THEN [kind |-> "panic", v |-> <<"No previous version found">>]
                      ELSE [kind |-> "ok", v |-> versions[idx + 1]]
         ELSE ScanDescending(sv, versions, Len(versions))

(***************************************************************************)
(* The registry and the inputs of a run                                    *)
(***************************************************************************)

A == <<"a">>
B == <<"b">>
C == <<"c">>
D == <<"d">>
U == <<"u">>
V == <<"v">>
W == <<"w">>
Y == <<"y">>

V100 == <<"1", "0", "0">>
V110 == <<"1", "1", "0">>
V200 == <<"2", "0", "0">>

\* The registry: a answers with two dependencies that meet again in d (a
\* diamond), d declares a back (a cycle), u declares a range that does not
\* parse, w and its dependency y both declare v, w by a range that stands
\* for the latest version and y by the exact version.
RegistryVersions(name) ==
    CASE name = D -> {V100, V110, V200}
      [] name \in {A, B, C, U, V, W, Y} -> {V100}
      [] OTHER -> {}

\* The version the registry serves for "<name>/latest".
RegistryLatest(name) == IF name = D THEN V200 ELSE V100

\* VersionData.dependencies of name@version, as (name, range) pairs.
RegistryDependencies(name, version) ==
    CASE name = A /\ version = V100 -> {<<B, <<"^", "1", "0", "0">>>>, <<C, V100>>}
      [] name = B /\ version = V100 -> {<<D, <<"<", "2", "0", "0">>>>}
      [] name = C /\ version = V100 -> {<<D, V110>>}
      [] name = D /\ version = V110 -> {<<A, <<">=", "1", "0", "0">>>>}
      [] name = U /\ version = V100 -> {<<B, V100>>, <<V, <<"bogus">>>>}
      [] name = W /\ version = V100 -> {<<V, <<">=", "1", "0", "0">>>>, <<Y, V100>>}
      [] name = Y /\ version = V100 -> {<<V, V100>>}
      [] OTHER -> {}

\* The VersionData the registry returns for name@version.
VersionDataOf(name, version) ==
    [name |-> name, version |-> version,
     dependencies |-> RegistryDependencies(name, version)]

NoVersionData == [name |-> <<>>, version |-> <<>>, dependencies |-> {}]

\* The command-line argument of "install".
Requests ==
    { A, A \o <<"@">> \o V100, U, D \o <<"@", "<", "2", "0", "0">>,
      A \o <<"@", "bogus">>, W }

\* PackageLock::new.
PackageLock_new(is_latest_flag) ==
    [is_latest |-> is_latest_flag, dependencies |-> <<>>]

\* The cache directory before the run: each directory holds an extracted
\* package and its pie-lock.json.
CacheConfigs ==
    { <<>>,
      (stringify(B, V100) :> [is_latest |-> FALSE,
                               dependencies |-> <<stringify(D, <<"<", "2", "0", "0">>)>>]),
      (stringify(D, V100) :> PackageLock_new(FALSE)),
      (stringify(A, V100) :> [is_latest |-> TRUE,
                               dependencies |-> <<stringify(B, <<"^", "1", "0", "0">>),
                                                  stringify(C, V100)>>]) }

(***************************************************************************)
(* State                                                                   *)
(***************************************************************************)

VARIABLES
    request,          \* the argument of "install"
    package_name,     \* Installer.package_name
    package_version,  \* Installer.package_version, an Option<Comparator>
    pc,               \* where Installer::execute is
    stack,            \* the nested install_package calls, innermost last
    dependency_map,   \* the DependencyMap behind dependency_map_mx
    activeTasks,      \* ACTIVE_TASKS
    queue,            \* the channel of (package_dest, bytes)
    worker,           \* the extraction closure given to spawn_blocking
    cacheDirs,        \* the directories under CACHE_DIR
    lockFiles,        \* the pie-lock.json of the directories that have one
    cachedVersions,   \* the lazy static CACHED_VERSIONS
    gateLog,          \* calls of already_resolved: [fp, res]
    downloadLog,      \* calls of get_bytes for a tarball: [fp, ok]
    sentLog,          \* package_dest of every send
    extractLog,       \* extract_tarball calls of the worker: [dest, ok]
    appendLog,        \* calls of append_version
    resolveLog,       \* dependencies resolved from the registry
    hitLog,           \* cache lookups that reported a hit
    counterLog,       \* increments and decrements of ACTIVE_TASKS
    finishedLog,      \* install_package futures that have ended
    failure,          \* the first failure of the run, an Option
    barrierCleared,   \* the wait for ACTIVE_TASKS = 0 has returned
    rvRange,          \* input of resolve_partial_version: the range string
    rvAvail,          \* input: the keys of available_versions
    rvResult,         \* its result, an Option
    rfVersion,        \* input of resolve_full_version: an Option<Comparator>
    rfResult,         \* its result, an Option of the Option<String>
    ceName,           \* input of Cache::exists: package_name
    ceVersion,        \* input: the concrete version
    ceResult,         \* its result, an Option
    task_received,    \* InstallHandler::execute: the AtomicBool of the worker
    senders           \* InstallHandler::execute: the Sender handles alive

installVars ==
    <<request, package_name, package_version, pc, stack, dependency_map,
      activeTasks, queue, worker, cacheDirs, lockFiles, cachedVersions>>

historyVars ==
    <<gateLog, downloadLog, sentLog, extractLog, appendLog, resolveLog,
      hitLog, counterLog, finishedLog, failure, barrierCleared>>

versionVars == <<rvRange, rvAvail, rvResult, rfVersion, rfResult>>

lookupVars == <<ceName, ceVersion, ceResult>>

handlerVars == <<task_received, senders>>

vars == <<installVars, historyVars, versionVars, lookupVars, handlerVars>>

(***************************************************************************)
(* Cache                                                                   *)
(***************************************************************************)

MapPut(m, k, v) == [x \in DOMAIN m \cup {k} |-> IF x = k THEN v ELSE m[x]]

\* str::starts_with.
starts_with(str, prefix) ==
    Len(prefix) <= Len(str) /\ SubSeq(str, 1, Len(prefix)) = prefix

\* str::ends_with, for a suffix of one token.
ends_with(str, suffix) ==
    Len(suffix) <= Len(str)
        /\ SubSeq(str, Len(str) - Len(suffix) + 1, Len(str)) = suffix

\* Cache::get_cached_versions: one entry per package name; with several
\* directories of one name the last one read stays, and the order of
\* read_dir is the file system's.  A directory without a lock file makes
\* the expect on File::open panic.
GetCachedVersionsPanics(dirs, locks) == \E d \in dirs : d \notin DOMAIN locks

CachedEntryOf(d, locks) ==
    [version |-> parse_raw_package_details(d).version,
     is_latest |-> locks[d].is_latest]

get_cached_versions(dirs, locks) ==
    LET names == {parse_raw_package_details(d).name : d \in dirs}
        entries == {CachedEntryOf(d, locks) : d \in dirs}
    IN { f \in [names -> entries] :
           \A n \in names :
              \E d \in dirs : /\ parse_raw_package_details(d).name = n
                              /\ f[n] = CachedEntryOf(d, locks) }

\* Cache::get_latest_version_in_cache.
get_latest_version_in_cache(cached, name) ==
    IF name \in DOMAIN cached /\ cached[name].is_latest
    THEN Some(cached[name].version) ELSE None

\* Cache::is_in_cache.
is_in_cache(cached, package, version) ==
    package \in DOMAIN cached /\ cached[package].version = version

\* The directory scan of Cache::exists (no full version): every entry that
\* can be the first match in some order of read_dir.
RangeScanMatches(name, cmp, dirs) ==
    { d \in dirs :
        /\ starts_with(d, name)
        /\ LET entry_version == parse_raw_package_details(d).version
               version == IF VersionParses(entry_version)
                          THEN VersionParse(entry_version) ELSE EMPTY_VERSION
           IN matches(cmp, version) }

\* Cache::exists, with the first use of CACHED_VERSIONS loading it.  The
\* outcomes are [kind |-> "ok", hit, version, cached], or kind "panic".
CacheMiss(cached) ==
    [kind |-> "ok", hit |-> FALSE, version |-> None, cached |-> cached]

CachePanic == [kind |-> "panic", hit |-> FALSE, version |-> None,
               cached |-> [loaded |-> FALSE, entries |-> <<>>]]

ExistsWith(cached, name, version) ==
    IF version = LATEST
    THEN LET latest_version == get_latest_version_in_cache(cached.entries, name)
         IN [kind |-> "ok", hit |-> IsSome(latest_version),
             version |-> latest_version, cached |-> cached]
    ELSE [kind |-> "ok", hit |-> is_in_cache(cached.entries, name, version),
          version |-> Some(version), cached |-> cached]

Cache_exists(name, version, sem_ver, cached, dirs, locks) ==
    IF IsSome(version)
    THEN IF cached.loaded THEN {ExistsWith(cached, name, Unwrap(version))}
         ELSE IF GetCachedVersionsPanics(dirs, locks) THEN {CachePanic}
         ELSE { ExistsWith([loaded |-> TRUE, entries |-> e], name, Unwrap(version)) :
                  e \in get_cached_versions(dirs, locks) }
    ELSE LET found == RangeScanMatches(name, Unwrap(sem_ver), dirs) IN
         IF found = {} THEN {CacheMiss(cached)}
         ELSE { [kind |-> "ok", hit |-> TRUE,
                 version |-> Some(parse_raw_package_details(d).version),
                 cached |-> cached] : d \in found }

(***************************************************************************)
(* HttpRequest and Installer::get_version_data                             *)
(***************************************************************************)

Fetched(kind, vd) == [kind |-> kind, vd |-> vd]

\* What the registry answers when the transport works.
RegistryAnswer(package_name_, full_version, version) ==
    IF IsSome(full_version)
    THEN LET v == Unwrap(full_version) IN
         IF RegistryVersions(package_name_) = {} THEN Fetched("err", NoVersionData)
         ELSE IF v = LATEST
              THEN Fetched("ok", VersionDataOf(package_name_, RegistryLatest(package_name_)))
         ELSE IF v \in RegistryVersions(package_name_)
              THEN Fetched("ok", VersionDataOf(package_name_, v))
         ELSE Fetched("err", NoVersionData)
    ELSE IF RegistryVersions(package_name_) = {} THEN Fetched("err", NoVersionData)
         ELSE LET r == resolve_partial_version(version, RegistryVersions(package_name_))
              IN IF r.kind = "ok"
                 THEN IF r.v \in RegistryVersions(package_name_)
                      THEN Fetched("ok", VersionDataOf(package_name_, r.v))
                      ELSE Fetched("panic", NoVersionData)
                 ELSE Fetched(r.kind, NoVersionData)

\* Installer::get_version_data: the registry's answer, or a transport error.
get_version_data(package_name_, full_version, version) ==
    { RegistryAnswer(package_name_, full_version, version),
      Fetched("err", NoVersionData) }

(***************************************************************************)
(* Installer                                                               *)
(***************************************************************************)

\* Installer::already_resolved, under one lock of the map: the result and
\* the map it leaves.
already_resolved_no_insert(name, version, is_latest_flag, map) ==
    [res |-> stringify(name, version) \in DOMAIN map, map |-> map]

already_resolved_no_lookup(name, version, is_latest_flag, map) ==
    [res |-> FALSE,
     map |-> MapPut(map, stringify(name, version), PackageLock_new(is_latest_flag))]

already_resolved(name, version, is_latest_flag, map) ==
    LET str_v == stringify(name, version) IN
    IF str_v \in DOMAIN map
    THEN [res |-> TRUE, map |-> map]
    ELSE [res |-> FALSE, map |-> MapPut(map, str_v, PackageLock_new(is_latest_flag))]

\* Installer::append_version, under one lock of the map.
append_version_replace(parent_version_name, new_version_name, map) ==
    LET parent_versions ==
            IF parent_version_name \in DOMAIN map THEN map[parent_version_name]
            ELSE PackageLock_new(ends_with(parent_version_name, LATEST))
    IN MapPut(map, parent_version_name,
              [parent_versions EXCEPT !.dependencies = <<new_version_name>>])

append_version(parent_version_name, new_version_name, map) ==
    LET parent_versions ==
            IF parent_version_name \in DOMAIN map THEN map[parent_version_name]
            ELSE PackageLock_new(ends_with(parent_version_name, LATEST))
    IN MapPut(map, parent_version_name,
              [parent_versions EXCEPT !.dependencies = Append(@, new_version_name)])

\* One install_package call in progress.
Frame(version_data, is_latest_flag) ==
    [vd |-> version_data, is_latest |-> is_latest_flag, pc |-> "gate",
     deps |-> {}, cur |-> None]

FrameFp(f) == stringify(f.vd.name, f.vd.version)

Top == stack[Len(stack)]

SetTop(f) == [stack EXCEPT ![Len(stack)] = f]

\* The Sender handles alive: one per install_package future.
Senders == Len(stack)

\* The futures dropped when an error or a panic unwinds the calls,
\* innermost first.
Unwound(how) ==
    [i \in 1..Len(stack) |-> [fp |-> FrameFp(stack[Len(stack) + 1 - i]), how |-> how]]

NoFp == <<>>

Failure(kind, parent, name) == Some([kind |-> kind, parent |-> parent, name |-> name])

FirstFailure(f) == IF IsSome(failure) THEN failure ELSE f

Init ==
    /\ request \in Requests
    /\ package_name = <<>>
    /\ package_version = None
    /\ pc = "parse"
    /\ stack = <<>>
    /\ dependency_map = <<>>
    /\ activeTasks = 0
    /\ queue = <<>>
    /\ worker = "none"
    /\ \E cfg \in CacheConfigs : cacheDirs = DOMAIN cfg /\ lockFiles = cfg
    /\ cachedVersions = [loaded |-> FALSE, entries |-> <<>>]
    /\ gateLog = <<>>
    /\ downloadLog = <<>>
    /\ sentLog = <<>>
    /\ extractLog = <<>>
    /\ appendLog = <<>>
    /\ resolveLog = {}
    /\ hitLog = {}
    /\ counterLog = <<>>
    /\ finishedLog = <<>>
    /\ failure = None
    /\ barrierCleared = FALSE
    /\ task_received = FALSE
    /\ senders = 0
    /\ rvRange = <<>>
    /\ rvAvail = {}
    /\ rvResult = None
    /\ rfVersion = None
    /\ rfResult = None
    /\ ceName = <<>>
    /\ ceVersion = <<>>
    /\ ceResult = None

\* Installer::parse: Versions::parse_semantic_package_details of the argument.
Parse ==
    /\ pc = "parse"
    /\ LET details == parse_raw_package_details(request)
           parsed == parse_semantic_version(details.version)
       IN IF details.version = LATEST
          THEN /\ package_name' = details.name
               /\ package_version' = None
               /\ pc' = "execute"
          ELSE IF parsed.kind = "ok"
          THEN /\ package_name' = details.name
               /\ package_version' = Some(parsed.cmp)
               /\ pc' = "execute"
          ELSE /\ pc' = IF parsed.kind = "err" THEN "parse_error" ELSE "panicked"
               /\ UNCHANGED <<package_name, package_version>>
    /\ UNCHANGED <<request, stack, dependency_map, activeTasks, queue, worker,
                   cacheDirs, lockFiles, cachedVersions>>
    /\ UNCHANGED historyVars
    /\ UNCHANGED versionVars
    /\ UNCHANGED <<lookupVars, handlerVars>>

\* Installer::execute up to the cache check of the root package.
ExecuteLookup ==
    /\ pc = "execute"
    /\ LET full_version == resolve_full_version(package_version) IN
       \E r \in Cache_exists(package_name, full_version, package_version,
                             cachedVersions, cacheDirs, lockFiles) :
          /\ cachedVersions' = IF r.kind = "ok" THEN r.cached ELSE cachedVersions
          /\ pc' = IF r.kind = "panic" THEN "panicked"
                   ELSE IF r.hit THEN "done" ELSE "fetch"
          /\ hitLog' = IF r.kind = "ok" /\ r.hit
                       THEN hitLog \cup {[parent |-> NoFp, name |-> package_name,
                                          version |-> r.version]}
                       ELSE hitLog
          /\ failure' = IF r.kind = "panic"
                        THEN FirstFailure(Failure("cache", NoFp, package_name))
                        ELSE failure
    /\ UNCHANGED <<request, package_name, package_version, stack, dependency_map,
                   activeTasks, queue, worker, cacheDirs, lockFiles>>
    /\ UNCHANGED <<gateLog, downloadLog, sentLog, extractLog, appendLog,
                   resolveLog, counterLog, finishedLog, barrierCleared>>
    /\ UNCHANGED versionVars
    /\ UNCHANGED <<lookupVars, handlerVars>>

\* Installer::execute: get_version_data of the root, then the channel, the
\* extraction closure handed to spawn_blocking, the map, and the call of
\* install_package.
ExecuteFetch ==
    /\ pc = "fetch"
    /\ LET full_version == resolve_full_version(package_version) IN
       \E r \in get_version_data(package_name, full_version, package_version) :
          IF r.kind = "ok"
          THEN /\ pc' = "install"
               /\ worker' = "spawned"
               /\ stack' = <<Frame(r.vd, is_latest(full_version))>>
               /\ UNCHANGED failure
          ELSE /\ pc' = IF r.kind = "err" THEN "error" ELSE "panicked"
               /\ failure' = FirstFailure(Failure("metadata", NoFp, package_name))
               /\ UNCHANGED <<worker, stack>>
    /\ UNCHANGED <<request, package_name, package_version, dependency_map,
                   activeTasks, queue, cacheDirs, lockFiles, cachedVersions>>
    /\ UNCHANGED <<gateLog, downloadLog, sentLog, extractLog, appendLog,
                   resolveLog, hitLog, counterLog, finishedLog, barrierCleared>>
    /\ UNCHANGED versionVars
    /\ UNCHANGED <<lookupVars, handlerVars>>

\* The stack and pc after the innermost install_package returns Ok: its
\* caller goes on with the next dependency; the root returns to execute.
ReturnOk ==
    IF Len(stack) = 1
    THEN /\ stack' = <<>>
         /\ pc' = "barrier"
    ELSE /\ stack' = [SubSeq(stack, 1, Len(stack) - 1) EXCEPT ![Len(stack) - 1] =
                         [@ EXCEPT !.pc = "deps", !.deps = @ \ {Unwrap(stack[Len(stack) - 1].cur)},
                                   !.cur = None]]
         /\ pc' = pc

\* install_package: the dedup gate and, for a new fingerprint, the
\* increment of ACTIVE_TASKS.
Gate ==
    /\ pc = "install"
    /\ stack # <<>>
    /\ Top.pc = "gate"
    /\ LET g == already_resolved(Top.vd.name, Top.vd.version, Top.is_latest, dependency_map)
       IN /\ dependency_map' = g.map
          /\ gateLog' = Append(gateLog, [fp |-> FrameFp(Top), res |-> g.res])
          /\ IF g.res
             THEN /\ ReturnOk
                  /\ finishedLog' = Append(finishedLog, [fp |-> FrameFp(Top), how |-> "already"])
                  /\ UNCHANGED <<activeTasks, counterLog>>
             ELSE /\ activeTasks' = activeTasks + 1
                  /\ counterLog' = Append(counterLog, [who |-> FrameFp(Top), op |-> "inc"])
                  /\ stack' = SetTop([Top EXCEPT !.pc = "download"])
                  /\ UNCHANGED <<pc, finishedLog>>
    /\ UNCHANGED <<request, package_name, package_version, queue, worker,
                   cacheDirs, lockFiles, cachedVersions>>
    /\ UNCHANGED <<downloadLog, sentLog, extractLog, appendLog, resolveLog,
                   hitLog, failure, barrierCleared>>
    /\ UNCHANGED versionVars
    /\ UNCHANGED <<lookupVars, handlerVars>>

\* install_package: get_bytes of the tarball and the send to the worker.
\* An error returns through every caller's "?"; a send to a dropped
\* receiver panics.
Download ==
    /\ pc = "install"
    /\ stack # <<>>
    /\ Top.pc = "download"
    /\ \E ok \in BOOLEAN :
          /\ downloadLog' = Append(downloadLog, [fp |-> FrameFp(Top), ok |-> ok])
          /\ IF ~ok
             THEN /\ stack' = <<>>
                  /\ pc' = "error"
                  /\ finishedLog' = finishedLog \o Unwound("err")
                  /\ failure' = FirstFailure(Failure("download",
                                    IF Len(stack) > 1 THEN FrameFp(stack[Len(stack) - 1]) ELSE NoFp,
                                    Top.vd.name))
                  /\ UNCHANGED <<queue, sentLog>>
             ELSE IF worker = "panicked"
             THEN /\ stack' = <<>>
                  /\ pc' = "panicked"
                  /\ finishedLog' = finishedLog \o Unwound("panic")
                  /\ failure' = FirstFailure(Failure("send",
                                    IF Len(stack) > 1 THEN FrameFp(stack[Len(stack) - 1]) ELSE NoFp,
                                    Top.vd.name))
                  /\ UNCHANGED <<queue, sentLog>>
             ELSE /\ queue' = Append(queue, FrameFp(Top))
                  /\ sentLog' = Append(sentLog, FrameFp(Top))
                  /\ stack' = SetTop([Top EXCEPT !.pc = "deps", !.deps = Top.vd.dependencies])
                  /\ UNCHANGED <<pc, finishedLog, failure>>
    /\ UNCHANGED <<request, package_name, package_version, dependency_map,
                   activeTasks, worker, cacheDirs, lockFiles, cachedVersions>>
    /\ UNCHANGED <<gateLog, extractLog, appendLog, resolveLog, hitLog,
                   counterLog, barrierCleared>>
    /\ UNCHANGED versionVars
    /\ UNCHANGED <<lookupVars, handlerVars>>

\* The fingerprint of the call that called the innermost one.
ParentFp == IF Len(stack) > 1 THEN FrameFp(stack[Len(stack) - 1]) ELSE NoFp

\* install_package: the head of the loop over the declared dependencies
\* (a HashMap, so in any order): parse the range, resolve_full_version,
\* Cache::exists; a hit goes on to the next dependency.  After the last
\* dependency ACTIVE_TASKS is decremented and the call returns Ok.
DepNext ==
    /\ pc = "install"
    /\ stack # <<>>
    /\ Top.pc = "deps"
    /\ IF Top.deps = {}
       THEN /\ activeTasks' = activeTasks - 1
            /\ counterLog' = Append(counterLog, [who |-> FrameFp(Top), op |-> "dec"])
            /\ finishedLog' = Append(finishedLog, [fp |-> FrameFp(Top), how |-> "ok"])
            /\ ReturnOk
            /\ UNCHANGED <<cachedVersions, hitLog, failure>>
       ELSE \E dep \in Top.deps :
            LET name == dep[1]
                v == parse_semantic_version(dep[2])
                full_version == resolve_full_version(Some(v.cmp))
            IN IF v.kind # "ok"
               THEN /\ stack' = <<>>
                    /\ pc' = "panicked"
                    /\ finishedLog' = finishedLog \o Unwound("panic")
                    /\ failure' = FirstFailure(Failure("range", FrameFp(Top), name))
                    /\ UNCHANGED <<activeTasks, counterLog, cachedVersions, hitLog>>
               ELSE \E r \in Cache_exists(name, full_version, Some(v.cmp),
                                          cachedVersions, cacheDirs, lockFiles) :
                    IF r.kind = "panic"
                    THEN /\ stack' = <<>>
                         /\ pc' = "panicked"
                         /\ finishedLog' = finishedLog \o Unwound("panic")
                         /\ failure' = FirstFailure(Failure("cache", FrameFp(Top), name))
                         /\ UNCHANGED <<activeTasks, counterLog, cachedVersions, hitLog>>
                    ELSE /\ cachedVersions' = r.cached
                         /\ IF r.hit
                            THEN /\ stack' = SetTop([Top EXCEPT !.deps = @ \ {dep}])
                                 /\ hitLog' = hitLog \cup {[parent |-> FrameFp(Top), name |-> name,
                                                            version |-> r.version]}
                            ELSE /\ stack' = SetTop([Top EXCEPT !.pc = "fetch", !.cur = Some(dep)])
                                 /\ UNCHANGED hitLog
                         /\ UNCHANGED <<pc, activeTasks, counterLog, finishedLog, failure>>
    /\ UNCHANGED <<request, package_name, package_version, dependency_map,
                   queue, worker, cacheDirs, lockFiles>>
    /\ UNCHANGED <<gateLog, downloadLog, sentLog, extractLog, appendLog,
                   resolveLog, barrierCleared>>
    /\ UNCHANGED versionVars
    /\ UNCHANGED <<lookupVars, handlerVars>>

\* install_package: get_version_data of the dependency (unwrap: an error
\* panics), append_version under the parent, and the recursive call.
DepFetch ==
    /\ pc = "install"
    /\ stack # <<>>
    /\ Top.pc = "fetch"
    /\ LET dep == Unwrap(Top.cur)
           name == dep[1]
           version == dep[2]
           v == parse_semantic_version(version).cmp
           full_version == resolve_full_version(Some(v))
           stringified_parent == FrameFp(Top)
           stringified_version == stringify(name, version)
       IN \E r \in get_version_data(name, full_version, Some(v)) :
          IF r.kind # "ok"
          THEN /\ stack' = <<>>
               /\ pc' = "panicked"
               /\ finishedLog' = finishedLog \o Unwound("panic")
               /\ failure' = FirstFailure(Failure("metadata", stringified_parent, name))
               /\ UNCHANGED <<dependency_map, appendLog, resolveLog>>
          ELSE /\ dependency_map' =
                     append_version(stringified_parent, stringified_version, dependency_map)
               /\ appendLog' = Append(appendLog,
                     [parent |-> stringified_parent,
                      entry |-> stringified_version,
                      child |-> stringify(r.vd.name, r.vd.version),
                      parentRegistered |-> stringified_parent \in DOMAIN dependency_map,
                      childRegistered |->
                          stringify(r.vd.name, r.vd.version) \in DOMAIN dependency_map])
               /\ resolveLog' = resolveLog \cup
                     {[parent |-> stringified_parent, name |-> name, range |-> version,
                       child |-> stringify(r.vd.name, r.vd.version)]}
               /\ stack' = Append(SetTop([Top EXCEPT !.pc = "await_child"]),
                                  Frame(r.vd, is_latest(full_version)))
               /\ UNCHANGED <<pc, finishedLog, failure>>
    /\ UNCHANGED <<request, package_name, package_version, activeTasks, queue,
                   worker, cacheDirs, lockFiles, cachedVersions>>
    /\ UNCHANGED <<gateLog, downloadLog, sentLog, extractLog, hitLog,
                   counterLog, barrierCleared>>
    /\ UNCHANGED versionVars
    /\ UNCHANGED <<lookupVars, handlerVars>>

\* Installer::execute: "while get_active_tasks() > 0 {}" returns.
Barrier ==
    /\ pc = "barrier"
    /\ activeTasks = 0
    /\ pc' = "write"
    /\ barrierCleared' = TRUE
    /\ UNCHANGED <<request, package_name, package_version, stack, dependency_map,
                   activeTasks, queue, worker, cacheDirs, lockFiles, cachedVersions>>
    /\ UNCHANGED <<gateLog, downloadLog, sentLog, extractLog, appendLog,
                   resolveLog, hitLog, counterLog, finishedLog, failure>>
    /\ UNCHANGED versionVars
    /\ UNCHANGED <<lookupVars, handlerVars>>

\* Installer::execute: dependency_map_mx.lock() after the barrier; the
\* guard lives to the end of execute.
LockMap ==
    /\ pc = "write"
    /\ pc' = "locked"
    /\ UNCHANGED <<request, package_name, package_version, stack, dependency_map,
                   activeTasks, queue, worker, cacheDirs, lockFiles, cachedVersions>>
    /\ UNCHANGED historyVars
    /\ UNCHANGED versionVars
    /\ UNCHANGED <<lookupVars, handlerVars>>

\* Installer::execute: one pie-lock.json per entry of the map, under the
\* lock of the map; a file that cannot be created ends the loop with an
\* error, the files written before it stay.
WriteLocks ==
    /\ pc = "locked"
    /\ \E written \in SUBSET (DOMAIN dependency_map) :
          /\ cacheDirs' = cacheDirs \cup written
          /\ lockFiles' = [d \in DOMAIN lockFiles \cup written |->
                              IF d \in written THEN dependency_map[d] ELSE lockFiles[d]]
          /\ pc' = IF written = DOMAIN dependency_map THEN "done" ELSE "error"
          /\ failure' = IF written = DOMAIN dependency_map THEN failure
                        ELSE FirstFailure(Failure("lockfile", NoFp, package_name))
    /\ UNCHANGED <<request, package_name, package_version, stack, dependency_map,
                   activeTasks, queue, worker, cachedVersions>>
    /\ UNCHANGED <<gateLog, downloadLog, sentLog, extractLog, appendLog,
                   resolveLog, hitLog, counterLog, finishedLog, barrierCleared>>
    /\ UNCHANGED versionVars
    /\ UNCHANGED <<lookupVars, handlerVars>>

\* The extraction closure starts on a blocking thread: increment_active_tasks.
WorkerStart ==
    /\ worker = "spawned"
    /\ worker' = "running"
    /\ activeTasks' = activeTasks + 1
    /\ counterLog' = Append(counterLog, [who |-> <<"worker">>, op |-> "inc"])
    /\ UNCHANGED <<request, package_name, package_version, pc, stack,
                   dependency_map, queue, cacheDirs, lockFiles, cachedVersions>>
    /\ UNCHANGED <<gateLog, downloadLog, sentLog, extractLog, appendLog,
                   resolveLog, hitLog, finishedLog, failure, barrierCleared>>
    /\ UNCHANGED versionVars
    /\ UNCHANGED <<lookupVars, handlerVars>>

\* receiver.recv() returns a pair and extract_tarball unpacks it; the
\* unwrap panics on an archive that does not unpack, which drops the
\* receiver and what it still holds.
WorkerExtract ==
    /\ worker = "running"
    /\ queue # <<>>
    /\ \E ok \in BOOLEAN :
          /\ extractLog' = Append(extractLog, [dest |-> Head(queue), ok |-> ok])
          /\ IF ok
             THEN /\ queue' = Tail(queue)
                  /\ cacheDirs' = cacheDirs \cup {Head(queue)}
                  /\ UNCHANGED <<worker, failure>>
             ELSE /\ queue' = <<>>
                  /\ worker' = "panicked"
                  /\ failure' = FirstFailure(Failure("extract", NoFp,
                                    parse_raw_package_details(Head(queue)).name))
                  /\ UNCHANGED cacheDirs
    /\ UNCHANGED <<request, package_name, package_version, pc, stack,
                   dependency_map, activeTasks, lockFiles, cachedVersions>>
    /\ UNCHANGED <<gateLog, downloadLog, sentLog, appendLog, resolveLog,
                   hitLog, counterLog, finishedLog, barrierCleared>>
    /\ UNCHANGED versionVars
    /\ UNCHANGED <<lookupVars, handlerVars>>

\* receiver.recv() returns Err: the queue is empty and every Sender is
\* dropped.  The loop ends: decrement_active_tasks.
WorkerExit ==
    /\ worker = "running"
    /\ queue = <<>>
    /\ Senders = 0
    /\ worker' = "exited"
    /\ activeTasks' = activeTasks - 1
    /\ counterLog' = Append(counterLog, [who |-> <<"worker">>, op |-> "dec"])
    /\ UNCHANGED <<request, package_name, package_version, pc, stack,
                   dependency_map, queue, cacheDirs, lockFiles, cachedVersions>>
    /\ UNCHANGED <<gateLog, downloadLog, sentLog, extractLog, appendLog,
                   resolveLog, hitLog, finishedLog, failure, barrierCleared>>
    /\ UNCHANGED versionVars
    /\ UNCHANGED <<lookupVars, handlerVars>>

Next ==
    \/ Parse
    \/ ExecuteLookup
    \/ ExecuteFetch
    \/ Gate
    \/ Download
    \/ DepNext
    \/ DepFetch
    \/ Barrier
    \/ LockMap
    \/ WriteLocks
    \/ WorkerStart
    \/ WorkerExtract
    \/ WorkerExit

Spec == Init /\ [][Next]_vars

\* The steps of the extraction closure, which has a thread of the blocking
\* pool to itself.
WorkerNext == WorkerStart \/ WorkerExtract \/ WorkerExit

\* The runtime keeps polling the future of execute and the blocking pool
\* keeps running the closure: neither is held back forever while it has a
\* step to take.
Fairness == WF_vars(Next) /\ WF_vars(WorkerNext)

SpecFair == Spec /\ Fairness

(***************************************************************************)
(* resolve_partial_version on its own: the inputs are drawn in the initial *)
(* state and one step applies the function.                                *)
(***************************************************************************)

\* The largest available_versions enumerated.
MaxAvail == 4

V120 == <<"1", "2", "0">>
V125 == <<"1", "2", "5">>
V130 == <<"1", "3", "0">>
V1100 == <<"1", "10", "0">>
V120beta == <<"1", "2", "0", "beta">>
NotAVersion == <<"x">>

VersionInputs ==
    {V100, V110, V120, V125, V130, V1100, V200, V120beta, NotAVersion}

RangeTriples == {V100, V120, V1100, V200}

RangeInputs ==
    RangeTriples
        \cup {<<op>> \o t : op \in OpTok, t \in RangeTriples}
        \cup {<<"1">>, <<"1", "2">>, <<"<", "2">>, <<"1", "*">>}

InitVersions ==
    /\ rvRange \in RangeInputs
    /\ rvAvail \in {S \in SUBSET VersionInputs : Cardinality(S) <= MaxAvail}
    /\ rvResult = None
    /\ rfVersion = None
    /\ rfResult = None
    /\ ceName = <<>>
    /\ ceVersion = <<>>
    /\ ceResult = None
    /\ request = A
    /\ package_name = <<>>
    /\ package_version = None
    /\ pc = "parse"
    /\ stack = <<>>
    /\ dependency_map = <<>>
    /\ activeTasks = 0
    /\ queue = <<>>
    /\ worker = "none"
    /\ cacheDirs = {}
    /\ lockFiles = <<>>
    /\ cachedVersions = [loaded |-> FALSE, entries |-> <<>>]
    /\ gateLog = <<>>
    /\ downloadLog = <<>>
    /\ sentLog = <<>>
    /\ extractLog = <<>>
    /\ appendLog = <<>>
    /\ resolveLog = {}
    /\ hitLog = {}
    /\ counterLog = <<>>
    /\ finishedLog = <<>>
    /\ failure = None
    /\ barrierCleared = FALSE
    /\ task_received = FALSE
    /\ senders = 0

\* The call of get_version_data: the range as install_package parsed it,
\* the keys of package_data.versions.
ResolvePartial ==
    /\ rvResult = None
    /\ parse_semantic_version(rvRange).kind = "ok"
    /\ rvResult' = Some(resolve_partial_version(
                            Some(parse_semantic_version(rvRange).cmp), rvAvail))
    /\ UNCHANGED <<rvRange, rvAvail, rfVersion, rfResult>>
    /\ UNCHANGED <<lookupVars, handlerVars>>
    /\ UNCHANGED installVars
    /\ UNCHANGED historyVars

NextVersions == ResolvePartial

SpecVersions == InitVersions /\ [][NextVersions]_vars

(***************************************************************************)
(* resolve_full_version on its own.                                        *)
(***************************************************************************)

Ops == {"Exact", "Greater", "GreaterEq", "Less", "LessEq", "Tilde", "Caret", "Wildcard"}

\* Comparators as the struct allows them: any operator with any of minor
\* and patch present or absent.
ComparatorInputs ==
    [op : Ops, major : {0, 1, 2}, minor : {None, Some(0), Some(2)},
     patch : {None, Some(0), Some(5)}, pre : {""}]

\* Everything but the two variables of resolve_full_version is at rest.
InitFull ==
    /\ rfVersion \in {None} \cup {Some(c) : c \in ComparatorInputs}
    /\ rfResult = None
    /\ ceName = <<>>
    /\ ceVersion = <<>>
    /\ ceResult = None
    /\ rvRange = <<>>
    /\ rvAvail = {}
    /\ rvResult = None
    /\ request = A
    /\ package_name = <<>>
    /\ package_version = None
    /\ pc = "parse"
    /\ stack = <<>>
    /\ dependency_map = <<>>
    /\ activeTasks = 0
    /\ queue = <<>>
    /\ worker = "none"
    /\ cacheDirs = {}
    /\ lockFiles = <<>>
    /\ cachedVersions = [loaded |-> FALSE, entries |-> <<>>]
    /\ gateLog = <<>>
    /\ downloadLog = <<>>
    /\ sentLog = <<>>
    /\ extractLog = <<>>
    /\ appendLog = <<>>
    /\ resolveLog = {}
    /\ hitLog = {}
    /\ counterLog = <<>>
    /\ finishedLog = <<>>
    /\ failure = None
    /\ barrierCleared = FALSE
    /\ task_received = FALSE
    /\ senders = 0

ResolveFull ==
    /\ rfResult = None
    /\ rfResult' = Some(resolve_full_version(rfVersion))
    /\ UNCHANGED <<rvRange, rvAvail, rvResult, rfVersion>>
    /\ UNCHANGED <<lookupVars, handlerVars>>
    /\ UNCHANGED installVars
    /\ UNCHANGED historyVars

NextFull == ResolveFull

SpecFull == InitFull /\ [][NextFull]_vars

(***************************************************************************)
(* Cache::exists for a concrete version on its own: a cache directory is   *)
(* drawn in the initial state and one step looks a fingerprint up.         *)
(***************************************************************************)

\* The fingerprint directories a cache may hold.
CacheDirInputs ==
    {stringify(D, V100), stringify(D, V110), stringify(D, V200),
     stringify(B, V100), stringify(A, V100)}

InitCache ==
    /\ cacheDirs \in SUBSET CacheDirInputs
    /\ lockFiles = [d \in cacheDirs |-> PackageLock_new(FALSE)]
    /\ cachedVersions = [loaded |-> FALSE, entries |-> <<>>]
    /\ ceName \in {B, D}
    /\ ceVersion \in {V100, V110, V200}
    /\ ceResult = None
    /\ rfVersion = None
    /\ rfResult = None
    /\ rvRange = <<>>
    /\ rvAvail = {}
    /\ rvResult = None
    /\ request = A
    /\ package_name = <<>>
    /\ package_version = None
    /\ pc = "parse"
    /\ stack = <<>>
    /\ dependency_map = <<>>
    /\ activeTasks = 0
    /\ queue = <<>>
    /\ worker = "none"
    /\ gateLog = <<>>
    /\ downloadLog = <<>>
    /\ sentLog = <<>>
    /\ extractLog = <<>>
    /\ appendLog = <<>>
    /\ resolveLog = {}
    /\ hitLog = {}
    /\ counterLog = <<>>
    /\ finishedLog = <<>>
    /\ failure = None
    /\ barrierCleared = FALSE
    /\ task_received = FALSE
    /\ senders = 0

\* Cache::exists(package_name, Some(version), _): the first use of
\* CACHED_VERSIONS reads the directory.
CacheLookup ==
    /\ ceResult = None
    /\ \E r \in Cache_exists(ceName, Some(ceVersion), None,
                             cachedVersions, cacheDirs, lockFiles) :
          /\ ceResult' = Some(r)
          /\ cachedVersions' = r.cached
    /\ UNCHANGED <<ceName, ceVersion>>
    /\ UNCHANGED <<request, package_name, package_version, pc, stack,
                   dependency_map, activeTasks, queue, worker, cacheDirs, lockFiles>>
    /\ UNCHANGED historyVars
    /\ UNCHANGED <<versionVars, handlerVars>>

NextCache == CacheLookup

SpecCache == InitCache /\ [][NextCache]_vars

(***************************************************************************)
(* The extraction worker of InstallHandler::execute and its channel.  The  *)
(* producers are whatever holds a Sender: each may clone it, send a        *)
(* (package_dest, bytes) pair, or drop it.                                 *)
(***************************************************************************)

\* The most Sender handles alive at once, and the most pairs sent.
MaxSenders == 2
MaxSends == 3

\* Right after add_blocking_task: the closure is spawned, install_context
\* holds the one Sender, nothing is sent.
InitHandler ==
    /\ worker = "spawned"
    /\ senders = 1
    /\ task_received = FALSE
    /\ queue = <<>>
    /\ activeTasks = 0
    /\ sentLog = <<>>
    /\ extractLog = <<>>
    /\ counterLog = <<>>
    /\ failure = None
    /\ cacheDirs = {}
    /\ lockFiles = <<>>
    /\ cachedVersions = [loaded |-> FALSE, entries |-> <<>>]
    /\ request = A
    /\ package_name = A
    /\ package_version = None
    /\ pc = "install"
    /\ stack = <<>>
    /\ dependency_map = <<>>
    /\ gateLog = <<>>
    /\ downloadLog = <<>>
    /\ appendLog = <<>>
    /\ resolveLog = {}
    /\ hitLog = {}
    /\ finishedLog = <<>>
    /\ barrierCleared = FALSE
    /\ rvRange = <<>>
    /\ rvAvail = {}
    /\ rvResult = None
    /\ rfVersion = None
    /\ rfResult = None
    /\ ceName = <<>>
    /\ ceVersion = <<>>
    /\ ceResult = None

HandlerRest ==
    /\ UNCHANGED <<request, package_name, package_version, pc, stack,
                   dependency_map, lockFiles, cachedVersions>>
    /\ UNCHANGED <<gateLog, downloadLog, appendLog, resolveLog, hitLog,
                   finishedLog, barrierCleared>>
    /\ UNCHANGED <<versionVars, lookupVars>>

\* A producer clones its Sender for a branch.
SenderClone ==
    /\ senders \in 1..(MaxSenders - 1)
    /\ senders' = senders + 1
    /\ UNCHANGED <<worker, task_received, queue, activeTasks, sentLog,
                   extractLog, counterLog, failure, cacheDirs>>
    /\ HandlerRest

\* A producer sends a pair; the send fails when the receiver is gone.
SenderSend ==
    /\ senders >= 1
    /\ Len(sentLog) < MaxSends
    /\ \E dest \in {stringify(A, V100), stringify(B, V100)} :
          /\ sentLog' = Append(sentLog, dest)
          /\ queue' = IF worker \in {"exited", "panicked"} THEN queue
                      ELSE Append(queue, dest)
    /\ UNCHANGED <<worker, task_received, senders, activeTasks, extractLog,
                   counterLog, failure, cacheDirs>>
    /\ HandlerRest

\* A producer ends and drops its Sender.
SenderDrop ==
    /\ senders >= 1
    /\ senders' = senders - 1
    /\ UNCHANGED <<worker, task_received, queue, activeTasks, sentLog,
                   extractLog, counterLog, failure, cacheDirs>>
    /\ HandlerRest

\* TaskAllocator::add_blocking_task: the closure starts on a blocking
\* thread, increment_tasks, then f().
HandlerWorkerStart ==
    /\ worker = "spawned"
    /\ worker' = "outer"
    /\ activeTasks' = activeTasks + 1
    /\ counterLog' = Append(counterLog, [who |-> <<"worker">>, op |-> "inc"])
    /\ UNCHANGED <<task_received, senders, queue, sentLog, extractLog,
                   failure, cacheDirs>>
    /\ HandlerRest

\* The outer loop "while !task_received.load(..)"; when it ends f()
\* returns and add_blocking_task calls decrement_tasks.
HandlerWorkerCheck ==
    /\ worker = "outer"
    /\ IF task_received
       THEN /\ worker' = "exited"
            /\ activeTasks' = activeTasks - 1
            /\ counterLog' = Append(counterLog, [who |-> <<"worker">>, op |-> "dec"])
       ELSE /\ worker' = "recv"
            /\ UNCHANGED <<activeTasks, counterLog>>
    /\ UNCHANGED <<task_received, senders, queue, sentLog, extractLog,
                   failure, cacheDirs>>
    /\ HandlerRest

\* The inner loop "while let Ok(..) = receiver.recv()": a pair sets
\* task_received and is extracted (the unwrap panics when that fails);
\* recv is Err once the queue is empty and every Sender is dropped.
HandlerWorkerRecv ==
    /\ worker = "recv"
    /\ IF queue # <<>>
       THEN /\ task_received' = TRUE
            /\ \E ok \in BOOLEAN :
                  /\ extractLog' = Append(extractLog, [dest |-> Head(queue), ok |-> ok])
                  /\ IF ok
                     THEN /\ queue' = Tail(queue)
                          /\ cacheDirs' = cacheDirs \cup {Head(queue)}
                          /\ UNCHANGED <<worker, failure>>
                     ELSE /\ queue' = <<>>
                          /\ worker' = "panicked"
                          /\ failure' = FirstFailure(Failure("extract", NoFp,
                                            parse_raw_package_details(Head(queue)).name))
                          /\ UNCHANGED cacheDirs
       ELSE /\ senders = 0
            /\ worker' = "outer"
            /\ UNCHANGED <<task_received, queue, extractLog, failure, cacheDirs>>
    /\ UNCHANGED <<senders, activeTasks, sentLog, counterLog>>
    /\ HandlerRest

HandlerWorkerNext == HandlerWorkerStart \/ HandlerWorkerCheck \/ HandlerWorkerRecv

NextHandler ==
    \/ SenderClone
    \/ SenderSend
    \/ SenderDrop
    \/ HandlerWorkerStart
    \/ HandlerWorkerCheck
    \/ HandlerWorkerRecv

SpecHandler == InitHandler /\ [][NextHandler]_vars

\* The blocking pool keeps running the closure while it has a step to take.
SpecHandlerFair == SpecHandler /\ WF_vars(HandlerWorkerNext)

(***************************************************************************)
(* Properties                                                              *)
(***************************************************************************)

Range(seq) == {seq[i] : i \in DOMAIN seq}

\* How many entries of a log satisfy Test.
Count(log, Test(_)) == Cardinality({i \in DOMAIN log : Test(log[i])})

GateCalls(fp) == {i \in DOMAIN gateLog : gateLog[i].fp = fp}
GateNew(fp) == {i \in DOMAIN gateLog : gateLog[i].fp = fp /\ ~gateLog[i].res}
Downloads(fp) == {i \in DOMAIN downloadLog : downloadLog[i].fp = fp}
Sends(fp) == {i \in DOMAIN sentLog : sentLog[i] = fp}
Increments(who) == {i \in DOMAIN counterLog : counterLog[i] = [who |-> who, op |-> "inc"]}
Decrements(who) == {i \in DOMAIN counterLog : counterLog[i] = [who |-> who, op |-> "dec"]}
Extracted == {extractLog[i].dest : i \in {j \in DOMAIN extractLog : extractLog[j].ok}}

\* The fingerprints handed to Cache::load_cached_version (materialize):
\* neither Installer::execute nor install_package calls it.
Materialized == {}

\* C1. Dedup gate: among the calls of already_resolved for one
\* fingerprint exactly one returns false; the map holds a record for
\* exactly the fingerprints that passed the gate; each fingerprint's
\* tarball is downloaded and sent to the extraction queue at most once.
C1_DedupGate ==
    /\ \A fp \in {gateLog[i].fp : i \in DOMAIN gateLog} :
          /\ Cardinality(GateNew(fp)) = 1
          /\ Cardinality(Downloads(fp)) <= 1
          /\ Cardinality(Sends(fp)) <= 1
    /\ DOMAIN dependency_map = {gateLog[i].fp : i \in DOMAIN gateLog}
    /\ \A i \in DOMAIN downloadLog : GateNew(downloadLog[i].fp) # {}

\* C1 witness: a finished run in which a fingerprint was asked for twice
\* (the diamond on d, the cycle back to a) and downloaded once.
C1_Witness ==
    /\ pc = "done"
    /\ barrierCleared
    /\ \E fp \in DOMAIN dependency_map :
          /\ Cardinality(GateCalls(fp)) >= 2
          /\ Cardinality(Downloads(fp)) = 1
          /\ Cardinality(Sends(fp)) = 1

\* C2. Barrier correctness: the wait for ACTIVE_TASKS = 0 does not return
\* while a spawned unit of work (here the extraction closure, spawned
\* before the root install) has neither finished nor died.
C2_BarrierWaitsForSpawned ==
    barrierCleared => worker \notin {"spawned", "running"}

\* C3. Extraction completeness: with an empty cache and no failure, when
\* the barrier clears every registered fingerprint has been extracted and
\* nothing sent is still in the queue.
C3_AllExtractedAtBarrier ==
    (pc = "write" /\ lockFiles = <<>> /\ failure = None)
        => /\ Extracted = DOMAIN dependency_map
           /\ Len(extractLog) = Cardinality(DOMAIN dependency_map)
           /\ queue = <<>>

\* C4. No leaked count: every install_package that incremented
\* ACTIVE_TASKS and has ended, on any exit path, has decremented it once.
C4_NoLeakedCount ==
    \A i \in DOMAIN finishedLog :
       Cardinality(Decrements(finishedLog[i].fp))
           = Cardinality(Increments(finishedLog[i].fp))

\* C5. Ancestor propagation: when the run completes, every dependency that
\* was resolved from the registry to a fingerprint is listed, as that
\* fingerprint, in its parent's LockRecord.dependencies.
C5_AncestorPropagation ==
    (pc = "done" /\ barrierCleared)
        => \A r \in resolveLog :
              /\ r.parent \in DOMAIN dependency_map
              /\ r.child \in Range(dependency_map[r.parent].dependencies)

\* C6. Cache short-circuit: a dependency the cache reports as present is
\* not fetched, is recorded as a child of its parent, and is materialized.
C6_CacheShortCircuit ==
    \A h \in hitLog :
       h.parent # NoFp =>
          /\ ~\E r \in resolveLog : r.parent = h.parent /\ r.name = h.name
          /\ h.parent \in DOMAIN dependency_map
          /\ stringify(h.name, Unwrap(h.version))
                \in Range(dependency_map[h.parent].dependencies)
          /\ stringify(h.name, Unwrap(h.version)) \in Materialized

\* The dependencies a registered fingerprint declares.
DeclaredDependencies(fp) ==
    RegistryDependencies(parse_raw_package_details(fp).name,
                         parse_raw_package_details(fp).version)

\* C7. Sibling isolation: after the metadata fetch, range parse or
\* download of one dependency failed, the run is over only when every
\* sibling under the same parent was looked up in the cache or resolved,
\* and the run reached the barrier.
C7_SiblingIsolation ==
    (/\ pc \in {"done", "error", "panicked"}
     /\ IsSome(failure)
     /\ Unwrap(failure).kind \in {"metadata", "range", "download"}
     /\ Unwrap(failure).parent # NoFp)
        => /\ \A dep \in DeclaredDependencies(Unwrap(failure).parent) :
                 dep[1] # Unwrap(failure).name =>
                    \/ \E r \in resolveLog :
                          r.parent = Unwrap(failure).parent /\ r.name = dep[1]
                    \/ \E h \in hitLog :
                          h.parent = Unwrap(failure).parent /\ h.name = dep[1]
           /\ barrierCleared

\* C8. Causal ordering: a child is appended to a LockRecord only after
\* the child's own check-and-insert into the map succeeded.
C8_AppendAfterChildRegistration ==
    \A i \in DOMAIN appendLog : appendLog[i].childRegistered

\* C9. Extraction worker lifetime: the worker has not terminated while a
\* Sender exists or a sent pair is in the queue.
C9_WorkerLifetime ==
    worker \in {"exited", "panicked"} => (Senders = 0 /\ queue = <<>>)

\* C10. Predecessor rule: for "<" with a full triple over semantic
\* versions, the result is the greatest entry below the triple when the
\* triple is an entry; InvalidVersion when it is not; an error, never a
\* version, when the triple is the lowest entry.
C10_PredecessorRule ==
    LET cmp == parse_semantic_version(rvRange).cmp
        triple == stringify_from_nums(cmp.major, Unwrap(cmp.minor), Unwrap(cmp.patch))
        below == {v \in rvAvail : VersionLess(VersionParse(v), VersionParse(triple))}
        result == Unwrap(rvResult)
    IN (/\ IsSome(rvResult)
        /\ cmp.op = "Less" /\ IsSome(cmp.minor) /\ IsSome(cmp.patch)
        /\ \A v \in rvAvail : VersionParses(v))
          => IF triple \notin rvAvail
             THEN result = [kind |-> "err", v |-> <<"InvalidVersion">>]
             ELSE IF below = {} THEN result.kind = "panic"
             ELSE /\ result.kind = "ok"
                  /\ result.v \in below
                  /\ \A w \in below :
                        ~VersionLess(VersionParse(result.v), VersionParse(w))

\* C10 witness: "<1.2.0" over {1.0.0, 1.1.0, 1.2.0, 1.3.0} gives 1.1.0.
C10_Witness ==
    /\ rvRange = <<"<", "1", "2", "0">>
    /\ rvAvail = {V100, V110, V120, V130}
    /\ rvResult = Some([kind |-> "ok", v |-> V110])

\* The members of available_versions that satisfy a comparator
\* (Comparator::matches on the parsed member).
Satisfying(cmp, available_versions) ==
    {v \in available_versions : matches(cmp, VersionParse(v))}

\* C11. Descending-match rule: for a range that is not a full-triple "<"
\* range, over semantic versions, the result is the highest member that
\* satisfies the range and is a key of available_versions; it is
\* InvalidVersion exactly when no member satisfies the range.
C11_DescendingMatch ==
    LET cmp == parse_semantic_version(rvRange).cmp
        sat == Satisfying(cmp, rvAvail)
        result == Unwrap(rvResult)
    IN (/\ IsSome(rvResult)
        /\ ~(cmp.op = "Less" /\ IsSome(cmp.minor) /\ IsSome(cmp.patch))
        /\ \A v \in rvAvail : VersionParses(v))
          => /\ result.kind \in {"ok", "err"}
             /\ result.kind = "err" <=> sat = {}
             /\ result.kind = "err" => result.v = <<"InvalidVersion">>
             /\ result.kind = "ok" =>
                   /\ result.v \in rvAvail
                   /\ result.v \in sat
                   /\ \A w \in sat :
                         ~VersionLess(VersionParse(result.v), VersionParse(w))

\* C11 witness: "^1.2.0" over {1.2.0, 1.2.5, 1.3.0, 2.0.0} gives 1.3.0.
C11_Witness ==
    /\ rvRange = <<"^", "1", "2", "0">>
    /\ rvAvail = {V120, V125, V130, V200}
    /\ rvResult = Some([kind |-> "ok", v |-> V130])

\* C12. resolve_full decision table: no range gives "latest"; a range
\* without minor or patch gives None; with a full triple, ">", ">=" and
\* wildcard give "latest", "=", "<=", "~" and "^" give the literal
\* "major.minor.patch", and "<" gives None.
C12_ResolveFullTable ==
    IsSome(rfResult) =>
       LET result == Unwrap(rfResult) IN
       IF rfVersion = None THEN result = Some(LATEST)
       ELSE LET c == Unwrap(rfVersion) IN
            IF c.minor = None \/ c.patch = None THEN result = None
            ELSE CASE c.op \in {"Greater", "GreaterEq", "Wildcard"} ->
                        result = Some(LATEST)
                   [] c.op \in {"Exact", "LessEq", "Tilde", "Caret"} ->
                        result = Some(<<ToStr(c.major), ToStr(Unwrap(c.minor)),
                                        ToStr(Unwrap(c.patch))>>)
                   [] c.op = "Less" -> result = None

\* C12 witness: "<2.0.5" has been answered, and the answer is None.
C12_Witness ==
    /\ rfVersion = Some([op |-> "Less", major |-> 2, minor |-> Some(0),
                         patch |-> Some(5), pre |-> ""])
    /\ rfResult = Some(None)

\* C13. Cache lookup by concrete version: whatever directories the cache
\* holds, the lookup of name and version reports a hit if and only if the
\* directory name@version exists.
C13_ConcreteLookup ==
    IsSome(ceResult) =>
       /\ Unwrap(ceResult).kind = "ok"
       /\ Unwrap(ceResult).hit <=> stringify(ceName, ceVersion) \in cacheDirs

\* The run of execute is over: it returned Ok, returned an error, or
\* panicked.
Terminated == pc \in {"done", "error", "parse_error", "panicked"}

\* C14. Termination: under fair scheduling the install run eventually
\* ends: the wait for ACTIVE_TASKS = 0 returns and execute runs to its
\* end, unless a failed call has ended the run before.
C14_Termination == <>Terminated

\* C15. Extraction worker shutdown: once every Sender is dropped and the
\* queue is drained, the worker eventually terminates and decrements the
\* counter, also when no pair was ever sent.
C15_WorkerShutdown ==
    (senders = 0 /\ queue = <<>> /\ worker # "panicked")
        ~> (worker = "exited" /\ activeTasks = 0)

\* The package names listed in the LockRecord of a fingerprint.
RecordedNames(fp) ==
    {parse_raw_package_details(e).name : e \in Range(dependency_map[fp].dependencies)}

\* C16. record_child reaches every open ancestor: each call in progress
\* below the root was resolved as a dependency, and it is listed in the
\* LockRecord of every call that is open above it, not only of its
\* direct parent.
C16_EveryOpenAncestor ==
    \A i \in 1..Len(stack) : \A j \in (i + 1)..Len(stack) :
       /\ FrameFp(stack[i]) \in DOMAIN dependency_map
       /\ stack[j].vd.name \in RecordedNames(FrameFp(stack[i]))

\* Vec: one list is the other with entries pushed at its end.
IsPrefix(small, large) ==
    Len(small) <= Len(large) /\ SubSeq(large, 1, Len(small)) = small

\* C17. LockRecord monotonicity: in every step, failing ones included, a
\* record of the map stays in the map, keeps its is_latest, and its
\* dependencies only grow at the end.
C17_LockRecordMonotone ==
    [][\A fp \in DOMAIN dependency_map :
          /\ fp \in DOMAIN dependency_map'
          /\ dependency_map'[fp].is_latest = dependency_map[fp].is_latest
          /\ IsPrefix(dependency_map[fp].dependencies,
                      dependency_map'[fp].dependencies)]_vars

\* C17 witness: a record that grew twice, in a run where a branch failed.
C17_Witness ==
    /\ IsSome(failure)
    /\ \E fp \in DOMAIN dependency_map : Len(dependency_map[fp].dependencies) >= 2

\* Every fingerprint the run has dealt with.
Fingerprints ==
    DOMAIN dependency_map
        \cup {gateLog[i].fp : i \in DOMAIN gateLog}
        \cup {downloadLog[i].fp : i \in DOMAIN downloadLog}
        \cup Range(sentLog)

Completions(fp) ==
    {i \in DOMAIN finishedLog : finishedLog[i] = [fp |-> fp, how |-> "ok"]}

\* Where a fingerprint is: 0 unresolved, 1 registered and downloading,
\* 2 download returned, 3 handed to the extraction queue, 4 complete.
Stage(fp, map, downloads, sent, finished) ==
    IF [fp |-> fp, how |-> "ok"] \in Range(finished) THEN 4
    ELSE IF fp \in Range(sent) THEN 3
    ELSE IF \E i \in DOMAIN downloads : downloads[i].fp = fp THEN 2
    ELSE IF fp \in DOMAIN map THEN 1
    ELSE 0

\* What holds of every fingerprint in every state.
StageOrder ==
    \A fp \in Fingerprints :
       /\ Downloads(fp) # {} => fp \in DOMAIN dependency_map
       /\ Sends(fp) # {} => \E i \in Downloads(fp) : downloadLog[i].ok
       /\ (\E r \in resolveLog : r.parent = fp) => Sends(fp) # {}
       /\ (\E h \in hitLog : h.parent = fp) => Sends(fp) # {}
       /\ Completions(fp) # {} => Sends(fp) # {}
       /\ Cardinality(GateNew(fp)) <= 1
       /\ Cardinality(Downloads(fp)) <= 1
       /\ Cardinality(Sends(fp)) <= 1
       /\ Cardinality(Completions(fp)) <= 1

\* C18. Per-fingerprint state machine: a fingerprint only moves forward
\* through unresolved, registered, downloading, handed to extraction,
\* complete; it is downloaded only once registered, sent only once
\* downloaded, its dependencies are resolved only once it is sent, and it
\* enters no stage twice.
C18_ForwardOnly ==
    /\ []StageOrder
    /\ [][\A fp \in Fingerprints :
             Stage(fp, dependency_map', downloadLog', sentLog', finishedLog')
                >= Stage(fp, dependency_map, downloadLog, sentLog, finishedLog)]_vars

\* C18 witness: a complete fingerprint whose dependencies were resolved.
C18_Witness ==
    \E fp \in DOMAIN dependency_map :
       /\ Stage(fp, dependency_map, downloadLog, sentLog, finishedLog) = 4
       /\ \E r \in resolveLog : r.parent = fp

\* The dependencies a parent had installed: those appended to its record
\* that were not registered before.
InstalledUnder(parent) ==
    {appendLog[i].child : i \in {j \in DOMAIN appendLog :
                                    /\ appendLog[j].parent = parent
                                    /\ ~appendLog[j].childRegistered}}

\* Two fingerprints were in progress (registered and counted, not yet
\* complete) at the same time: one was counted in while the other was.
StartedDuring(first, second) ==
    \E i \in Increments(first) : \E j \in Increments(second) :
       i < j /\ \A k \in Decrements(first) : k > j

InProgressTogether(s1, s2) == StartedDuring(s1, s2) \/ StartedDuring(s2, s1)

\* C19. Sibling concurrency: two distinct dependencies installed under
\* the same parent are in progress at the same time.  Stated of the runs
\* that ended Ok after installing two siblings.
C19_SiblingsOverlap ==
    (pc = "done" /\ failure = None) =>
       \A parent \in DOMAIN dependency_map :
          \A s1, s2 \in InstalledUnder(parent) :
             s1 # s2 => InProgressTogether(s1, s2)

\* No state has two siblings in progress together: the loop awaits each
\* recursive install_package before it takes the next dependency.
SiblingsSequential ==
    \A parent \in DOMAIN dependency_map :
       \A s1, s2 \in InstalledUnder(parent) :
          s1 # s2 => ~InProgressTogether(s1, s2)

\* The future of execute holds the MutexGuard of the map between two
\* steps.  (already_resolved and append_version take and drop it inside
\* one step, with nothing but the map touched in between.)
MutexHeld == pc = "locked"

\* The future of execute is in, or about to wait on, a registry or tarball
\* request, a read of the cache directory, or a write of a lock file.
NetworkOrDiskPending ==
    \/ pc \in {"execute", "fetch", "locked"}
    \/ pc = "install" /\ stack # <<>> /\ Top.pc \in {"download", "deps", "fetch"}

\* C20. Short critical sections: the mutex of the map is never held
\* during a network request or a disk operation.
C20_ShortCriticalSections == MutexHeld => ~NetworkOrDiskPending

\* The entries of available_versions that parse as semantic versions.
Parseable(available_versions) ==
    {v \in available_versions : VersionParses(v)}

\* C22. Sort fallback of resolve_partial: an entry of available_versions
\* that does not parse as a semantic version does not make
\* resolve_partial_version fail; the result over a list with such an entry
\* is the result determined by the parseable entries.
C22_SortFallback ==
    (/\ IsSome(rvResult)
     /\ Parseable(rvAvail) # {}
     /\ Parseable(rvAvail) # rvAvail)
       => /\ Unwrap(rvResult).kind # "panic"
          /\ Unwrap(rvResult) =
                resolve_partial_version(
                    Some(parse_semantic_version(rvRange).cmp), Parseable(rvAvail))

\* A string of the form name@version whose version is a semantic version.
IsFingerprint(str) ==
    /\ \E i \in 1..Len(str) : str[i] = "@"
    /\ VersionParses(parse_raw_package_details(str).version)

\* C23. Lock closure: when the lock files are written, every entry of
\* every LockRecord.dependencies is a fingerprint name@concrete-version
\* that is a key of the map of this run or a directory of the cache; no
\* entry is a name@range string.
C23_LockClosure ==
    pc = "locked" =>
        \A fp \in DOMAIN dependency_map :
            \A entry \in Range(dependency_map[fp].dependencies) :
                /\ IsFingerprint(entry)
                /\ entry \in DOMAIN dependency_map \cup cacheDirs

\* The fingerprints a cache lookup of this run has reported as present.
HitFingerprints == {stringify(h.name, Unwrap(h.version)) : h \in hitLog}

\* The fingerprints this run installs whose pie-lock.json is not yet
\* written: sent to the extraction worker, no lock file in their directory.
InProgress == {fp \in Range(sentLog) : fp \notin DOMAIN lockFiles}

\* C24. No cache hit on an in-progress install: a cache lookup never
\* reports a hit for a fingerprint whose directory this run's extraction
\* worker creates and whose lock file is not yet written.
C24_NoHitOnInProgress == HitFingerprints \cap InProgress = {}

\* The run of install_package in which every dependency map iterates in
\* one fixed order, every network call succeeds and no cache lookup hits
\* (the cache is empty and the worker unpacks after the resolution): the
\* map that the call for version_data leaves, and the map after the loop
\* over deps of the parent.
RECURSIVE ReferenceInstall(_, _, _)
RECURSIVE ReferenceDependencies(_, _, _)
ReferenceInstall(version_data, is_latest_flag, map) ==
    LET g == already_resolved(version_data.name, version_data.version,
                              is_latest_flag, map)
    IN IF g.res THEN map
       ELSE ReferenceDependencies(stringify(version_data.name, version_data.version),
                                  version_data.dependencies, g.map)

ReferenceDependencies(stringified_parent, deps, map) ==
    IF deps = {} THEN map
    ELSE LET dep == CHOOSE d \in deps : TRUE
             v == parse_semantic_version(dep[2]).cmp
             full_version == resolve_full_version(Some(v))
             r == RegistryAnswer(dep[1], full_version, Some(v))
             appended == append_version(stringified_parent,
                                        stringify(dep[1], dep[2]), map)
         IN ReferenceDependencies(stringified_parent, deps \ {dep},
                ReferenceInstall(r.vd, is_latest(full_version), appended))

\* The map of the reference run of Installer::execute for the request.
ReferenceMap ==
    LET full_version == resolve_full_version(package_version)
        r == RegistryAnswer(package_name, full_version, package_version)
    IN ReferenceInstall(r.vd, is_latest(full_version), <<>>)

\* execute has passed the barrier and holds the map to write the lock
\* files, in a run that started from an empty cache and had no failure.
EndsFromEmptyCache == pc = "locked" /\ failure = None /\ lockFiles = <<>>

\* C25. Interleaving-independent is_latest: for a fixed registry and
\* cache, the is_latest flag of each final LockRecord is the same in every
\* interleaving and processing order: it is the flag the reference run
\* stores, whichever requester passes the dedup gate first.
C25_IsLatestIndependent ==
    EndsFromEmptyCache =>
        \A fp \in DOMAIN dependency_map \cap DOMAIN ReferenceMap :
            dependency_map[fp].is_latest = ReferenceMap[fp].is_latest

\* The member sets of the lists of a map: fingerprint |-> the set of the
\* entries of its LockRecord.dependencies.
MemberSets(map) == [fp \in DOMAIN map |-> Range(map[fp].dependencies)]

\* C21. Interleaving-independent lock contents: for a fixed registry, a
\* fixed initial cache and all network calls succeeding, every
\* interleaving and every iteration order ends with the same set of
\* fingerprints in the map and, for each fingerprint, the same member set
\* of LockRecord.dependencies: those of the reference run.
C21_SameLockContents ==
    EndsFromEmptyCache => MemberSets(dependency_map) = MemberSets(ReferenceMap)

====
